---- MODULE Spec2Model ----
(***************************************************************************)
(* The file-backed record store of server.js: FileLock (a marker file      *)
(* created with the 'wx' flag), readRecords, writeRecords and the          *)
(* POST /api/submit-record handler.                                        *)
(*                                                                         *)
(* Each caller is one submission.  The data directory is the only shared   *)
(* state (records.json and records.lock); callers are interleaved at the   *)
(* granularity of their file-system operations: the read of the document,  *)
(* each attempt to create the marker, the write of the document and the    *)
(* removal of the marker.                                                  *)
(***************************************************************************)
EXTENDS Integers, Naturals, Sequences, FiniteSets, TLC

\* ---- bounds -----------------------------------------------------------
NumCallers == 2

\* The longest record list of the documents the read-only requests are
\* tried on.
MaxRecords == 3

\* ---- program constants --------------------------------------------------
maxRetries == 50

Callers == 1..NumCallers

VARIABLES
    doc,        \* contents of DATA_FILE (records.json)
    marker,     \* LOCK_FILE: 0 when absent, else the caller whose process created it
    pc,         \* position of each submission handler
    records,    \* handler local: the snapshot read, with the new record pushed
    nextId,     \* handler local: nextId of the snapshot read (= record.id)
    isLocked,   \* FileLock.isLocked of the lock object of each writeRecords call
    i,          \* loop counter of FileLock.acquire
    err,        \* the error thrown inside writeRecords, "none" when there is none
    result,     \* the response sent: "none", "success" or "failure"
    unlinkErr,  \* release() caught and logged an error of unlinkSync
    seqNo,      \* history: position of the submission in call order, kept while
                \* no two submissions have overlapped (0 otherwise)
    overlap,    \* history: two submissions have been in flight at the same time
    req,        \* the request each handler received (req.body and req.file)
    reply,      \* the response of the last read-only request (or startup read)
    arg,        \* the store handed to writeRecords by a direct call
    written     \* that direct call has written the document

\* The requests, responses and direct calls at the boundary of the store.
boundary == <<req, reply, arg, written>>

vars == <<doc, marker, pc, records, nextId, isLocked, i, err, result, unlinkErr, seqNo, overlap,
          req, reply, arg, written>>

\* ---- the persisted document ---------------------------------------------
\* kind "absent": the file does not exist; "malformed": it exists but
\* JSON.parse throws on it (an empty or partially written file);
\* "json": it parses to an object with the fields records and nextId.
AbsentDoc == [kind |-> "absent", records |-> <<>>, nextId |-> 0]

TruncatedDoc == [kind |-> "malformed", records |-> <<>>, nextId |-> 0]

JsonDoc(recs, nid) == [kind |-> "json", records |-> recs, nextId |-> nid]

\* A parsed document may lack a field ("json_no_records", "json_no_nextId",
\* "json_empty"); "unreadable" is a file readFileSync fails on.  A nextId of
\* 0 and an absent nextId are both falsy.
PartialDoc(k, recs, nid) == [kind |-> k, records |-> recs, nextId |-> nid]

\* readRecords(): the parsed document, or the empty store when the file is
\* absent or cannot be read or parsed; records || [] and nextId || 1 fill in
\* what the parsed document lacks.
readRecordsIgnoreNextId(d) ==
    IF d.kind = "json"
    THEN [records |-> d.records, nextId |-> 1]
    ELSE [records |-> <<>>, nextId |-> 1]

readRecordsNoDefault(d) ==
    IF d.kind \in {"json", "json_no_records", "json_no_nextId", "json_empty"}
    THEN [records |-> d.records, nextId |-> d.nextId]
    ELSE [records |-> <<>>, nextId |-> 1]

readRecords(d) ==
    IF d.kind \in {"json", "json_no_records", "json_no_nextId", "json_empty"}
    THEN [records |-> IF d.kind \in {"json", "json_no_nextId"}
                      THEN d.records ELSE <<>>,
          nextId |-> IF d.kind \in {"json", "json_no_records"} /\ d.nextId # 0
                     THEN d.nextId ELSE 1]
    ELSE [records |-> <<>>, nextId |-> 1]

\* The record built by the handler for caller c from the snapshot's nextId.
\* name stands for the fields taken from the request (name, photoPath).
NewRecordFirstId(c, nid) == [id |-> 1, name |-> c]

NewRecord(c, nid) == [id |-> nid, name |-> c]

\* ---- FileLock -------------------------------------------------------------
\* fs.writeFileSync(lockFile, pid, {flag: 'wx'}) succeeds only when the
\* marker does not exist.
CanCreateMarkerAlways(m) == TRUE

CanCreateMarker(m) == m = 0

releaseNothing(locked, m, unlinkOk) == [marker |-> m, isLocked |-> locked]

\* FileLock.release(): unlink the marker only when this lock object holds
\* it; a failing unlink is caught and leaves marker and isLocked as they are.
releaseUnconditional(locked, m, unlinkOk) ==
    IF unlinkOk /\ m # 0
    THEN [marker |-> 0, isLocked |-> FALSE]
    ELSE [marker |-> m, isLocked |-> locked]

release(locked, m, unlinkOk) ==
    IF locked /\ unlinkOk
    THEN [marker |-> 0, isLocked |-> FALSE]
    ELSE [marker |-> m, isLocked |-> locked]

\* ---- requests and responses ------------------------------------------------
\* A field that is absent from the request is the empty string (falsy, like
\* undefined); photo is the path of req.file.
NoRequest ==
    [name |-> "", gender |-> "", bike |-> "", treadmill |-> "", rowing |-> "",
     photo |-> ""]

\* The store readRecords returns when there is nothing to read (line 75).
EmptyStore == [records |-> <<>>, nextId |-> 1]

\* No read-only request has been answered yet.
NoReply ==
    [op |-> "none", status |-> 0, name |-> "", store |-> EmptyStore,
     male |-> <<>>, female |-> <<>>, rank |-> 0, record |-> <<>>,
     counts |-> <<0, 0, 0, 0, 0>>]

\* ---- initial state ------------------------------------------------------
Init ==
    /\ doc \in {AbsentDoc, JsonDoc(<<>>, 1)}
    /\ marker = 0
    /\ pc = [c \in Callers |-> "start"]
    /\ records = [c \in Callers |-> <<>>]
    /\ nextId = [c \in Callers |-> 0]
    /\ isLocked = [c \in Callers |-> FALSE]
    /\ i = [c \in Callers |-> 0]
    /\ err = [c \in Callers |-> "none"]
    /\ result = [c \in Callers |-> "none"]
    /\ unlinkErr = [c \in Callers |-> FALSE]
    /\ seqNo = [c \in Callers |-> 0]
    /\ overlap = FALSE
    /\ req = [c \in Callers |-> NoRequest]
    /\ reply = NoReply
    /\ arg = EmptyStore
    /\ written = FALSE

InFlight(c) == pc[c] \notin {"start", "done"}

Started == {c \in Callers : pc[c] # "start"}

\* ---- POST /api/submit-record ----------------------------------------------
\* Lines 211-231: read the snapshot, build the record with id = nextId, push
\* it and call writeRecords(records, nextId + 1), which constructs its lock.
ReadSnapshot(c) ==
    /\ pc[c] = "start"
    /\ LET s == readRecords(doc) IN
        /\ records' = [records EXCEPT ![c] = Append(s.records, NewRecord(c, s.nextId))]
        /\ nextId' = [nextId EXCEPT ![c] = s.nextId]
    /\ pc' = [pc EXCEPT ![c] = "acquire"]
    /\ isLocked' = [isLocked EXCEPT ![c] = FALSE]
    /\ i' = [i EXCEPT ![c] = 0]
    /\ overlap' = (overlap \/ \E d \in Callers : InFlight(d))
    /\ seqNo' = IF overlap'
                THEN [d \in Callers |-> 0]
                ELSE [seqNo EXCEPT ![c] = Cardinality(Started) + 1]
    /\ UNCHANGED <<doc, marker, err, result, unlinkErr>>
    /\ UNCHANGED boundary

\* The handler's response once writeRecords has returned or thrown:
\* lines 233-249 on return, the catch of lines 251-257 on a throw.
Response(e) == IF e = "none" THEN "success" ELSE "failure"

\* ---- FileLock.acquire ---------------------------------------------------
\* The loop of line 31 runs while i < maxRetries.
RetryForever(k) == TRUE

Retry(k) == k < maxRetries

\* Line 34 succeeds: the marker is created, isLocked is set, acquire returns.
AcquireOk(c) ==
    /\ pc[c] = "acquire"
    /\ Retry(i[c])
    /\ CanCreateMarker(marker)
    /\ marker' = c
    /\ isLocked' = [isLocked EXCEPT ![c] = TRUE]
    /\ i' = [i EXCEPT ![c] = 0]
    /\ pc' = [pc EXCEPT ![c] = "write"]
    /\ UNCHANGED <<doc, records, nextId, err, result, unlinkErr, seqNo, overlap>>
    /\ UNCHANGED boundary

\* Line 34 throws EEXIST: wait retryDelay, then the next iteration.
AcquireBusy(c) ==
    /\ pc[c] = "acquire"
    /\ Retry(i[c])
    /\ ~CanCreateMarker(marker)
    /\ i' = [i EXCEPT ![c] = i[c] + 1]
    /\ UNCHANGED <<doc, marker, pc, records, nextId, isLocked, err, result,
                   unlinkErr, seqNo, overlap>>
    /\ UNCHANGED boundary

\* writeRecords when acquire throws e: the catch of line 94 rethrows, the
\* finally calls release() on a lock that is not held, and the handler's
\* catch answers with a failure.
AcquireThrows(c, e) ==
    /\ \E unlinkOk \in BOOLEAN :
         LET r == release(isLocked[c], marker, unlinkOk) IN
           /\ marker' = r.marker
           /\ isLocked' = [isLocked EXCEPT ![c] = r.isLocked]
           /\ unlinkErr' = [unlinkErr EXCEPT ![c] = isLocked[c] /\ ~unlinkOk]
    /\ err' = [err EXCEPT ![c] = e]
    /\ result' = [result EXCEPT ![c] = Response(e)]
    /\ pc' = [pc EXCEPT ![c] = "done"]
    /\ UNCHANGED <<doc, records, nextId, i, seqNo, overlap>>
    /\ UNCHANGED boundary

\* The loop ends after maxRetries failed attempts: line 46 throws.
AcquireTimeout(c) ==
    /\ pc[c] = "acquire"
    /\ ~(Retry(i[c]))
    /\ AcquireThrows(c, "timeout")

\* Line 34 throws an error other than EEXIST: line 42 rethrows it.
AcquireError(c) ==
    /\ pc[c] = "acquire"
    /\ Retry(i[c])
    /\ AcquireThrows(c, "io_lock")

\* ---- writeRecords -------------------------------------------------------
\* The nextId the handler passes to writeRecords (line 231).
NextIdToWriteSame(nid) == nid

NextIdToWrite(nid) == nid + 1

\* Line 91 succeeds: the document is replaced by the caller's snapshot.
WriteOk(c) ==
    /\ pc[c] = "write"
    /\ doc' = JsonDoc(records[c], NextIdToWrite(nextId[c]))
    /\ pc' = [pc EXCEPT ![c] = "release"]
    /\ UNCHANGED <<marker, records, nextId, isLocked, i, err, result,
                   unlinkErr, seqNo, overlap>>
    /\ UNCHANGED boundary

\* Line 91 throws.  fs.writeFileSync opens the file with flag 'w', which
\* truncates it, and then writes: a failure of the open leaves the old
\* document, a failure of the write leaves a truncated one.
WriteFail(c) ==
    /\ pc[c] = "write"
    /\ doc' \in {doc, TruncatedDoc}
    /\ err' = [err EXCEPT ![c] = "io_write"]
    /\ pc' = [pc EXCEPT ![c] = "release"]
    /\ UNCHANGED <<marker, records, nextId, isLocked, i, result,
                   unlinkErr, seqNo, overlap>>
    /\ UNCHANGED boundary

\* The finally of line 97 after the lock was acquired, then the handler's
\* response: success when writeRecords returned, failure when it threw.
Release(c) ==
    /\ pc[c] = "release"
    /\ \E unlinkOk \in BOOLEAN :
         LET r == release(isLocked[c], marker, unlinkOk) IN
           /\ marker' = r.marker
           /\ isLocked' = [isLocked EXCEPT ![c] = r.isLocked]
           /\ unlinkErr' = [unlinkErr EXCEPT ![c] = isLocked[c] /\ ~unlinkOk]
    /\ result' = [result EXCEPT ![c] = Response(err[c])]
    /\ pc' = [pc EXCEPT ![c] = "done"]
    /\ UNCHANGED <<doc, records, nextId, i, err, seqNo, overlap>>
    /\ UNCHANGED boundary

Step(c) ==
    \/ ReadSnapshot(c)
    \/ AcquireOk(c)
    \/ AcquireBusy(c)
    \/ AcquireTimeout(c)
    \/ AcquireError(c)
    \/ WriteOk(c)
    \/ WriteFail(c)
    \/ Release(c)

Next == \E c \in Callers : Step(c)

Spec == Init /\ [][Next]_vars

\* Every handler that can take a step eventually takes one: timers fire and
\* synchronous file operations return.
FairSpec == Spec /\ \A c \in Callers : WF_vars(Step(c))

TypeOK ==
    /\ doc.kind \in {"absent", "unreadable", "malformed", "json",
                    "json_no_records", "json_no_nextId", "json_empty"}
    /\ marker \in {0} \cup Callers
    /\ \A c \in Callers :
         /\ pc[c] \in {"start", "acquire", "write", "release", "done"}
         /\ i[c] \in 0..maxRetries
         /\ err[c] \in {"none", "timeout", "io_lock", "io_write"}
         /\ result[c] \in {"none", "success", "failure", "rejected"}

\* ---- properties -----------------------------------------------------------
\* The store a reader obtains from the persisted document.
Store == readRecords(doc)

\* c is between a successful acquire() and its release().
InCriticalSection(c) == pc[c] \in {"write", "release"}

Done(c) == pc[c] = "done"

\* writeRecords of c got past acquire(): it returned or failed in the write.
Acquired(c) == err[c] \in {"none", "io_write"}

\* C1: at most one caller is between a successful acquire() and its
\* release(), the marker is then the one that caller created, and a caller
\* whose creation attempt finds the marker present does not enter the
\* critical section: it stays in acquire() (or leaves it with an error).
C1_MutualExclusion ==
    /\ [](\A c, d \in Callers :
            /\ InCriticalSection(c) => marker = c
            /\ InCriticalSection(c) /\ InCriticalSection(d) => c = d)
    /\ [][\A c \in Callers :
            pc[c] = "acquire" /\ marker # 0 => pc'[c] \in {"acquire", "done"}]_vars

\* A caller holds the lock while another has already waited on the marker.
C1_Witness ==
    \E c, d \in Callers :
        InCriticalSection(c) /\ pc[d] = "acquire" /\ i[d] > 0 /\ marker = c

\* C2: when all NumCallers submissions against the initially empty store
\* have succeeded, the persisted store holds exactly NumCallers records with
\* the ids 1..NumCallers and nextId = NumCallers + 1.
C2_ConcurrentAppendsAllPersist ==
    (\A c \in Callers : result[c] = "success") =>
        /\ Len(Store.records) = NumCallers
        /\ {Store.records[k].id : k \in 1..Len(Store.records)} = 1..NumCallers
        /\ Store.nextId = NumCallers + 1

\* C3: the record of a submission reported successful stays in the persisted
\* store, and every change of the persisted record sequence appends exactly
\* one record to the previous sequence.
C3_AppendOnly ==
    /\ [](\A c \in Callers :
            result[c] = "success" =>
                \E k \in 1..Len(Store.records) :
                    Store.records[k] = NewRecord(c, nextId[c]))
    /\ [][Store.records' # Store.records =>
            \E c \in Callers, n \in 1..(NumCallers + 1) :
                Store.records' = Append(Store.records, NewRecord(c, n))]_vars

\* C4: no two successful submissions are assigned the same id.
C4_IdsNeverReused ==
    \A c, d \in Callers :
        c # d /\ result[c] = "success" /\ result[d] = "success"
            => nextId[c] # nextId[d]

\* C5: in the persisted store nextId is greater than the id of every record.
C5_NextIdAboveIds ==
    \A k \in 1..Len(Store.records) : Store.records[k].id < Store.nextId

\* The persisted document holds NumCallers records.
C5_Witness == doc.kind = "json" /\ Len(doc.records) = NumCallers

\* No submission started while another was in flight, and every submission
\* completed so far succeeded.
SequentialSoFar ==
    /\ ~overlap
    /\ \A c \in Callers : Done(c) => result[c] = "success"

\* C6: in a run of submissions executed one after another, all successful,
\* the k-th submission is assigned id k; once N of them have completed the
\* store holds their N records in call order and nextId = N + 1.
C6_SequentialIds ==
    SequentialSoFar =>
        /\ \A c \in Started : nextId[c] = seqNo[c]
        /\ (\A c \in Callers : ~InFlight(c)) =>
              /\ Len(Store.records) = Cardinality(Started)
              /\ \A c \in Started : Store.records[seqNo[c]] = NewRecord(c, seqNo[c])
              /\ Store.nextId = Cardinality(Started) + 1

\* All NumCallers submissions ran one after another and succeeded.
C6_Witness ==
    /\ SequentialSoFar
    /\ \A c \in Callers : Done(c)

C8_TimeoutNoEffect ==
    [][\A c \in Callers :
         /\ pc[c] = "acquire" /\ marker # 0 /\ i'[c] # i[c]
              => doc' = doc /\ marker' = marker
         /\ pc[c] = "acquire" /\ i[c] = maxRetries /\ pc'[c] = "done"
              => doc' = doc /\ marker' = marker /\ result'[c] = "failure"]_vars

\* A caller timed out and the marker of the other holder is still there.
C8_Witness ==
    \E c \in Callers :
        /\ Done(c) /\ err[c] = "timeout" /\ result[c] = "failure"
        /\ marker # 0 /\ marker # c

\* C9: acquire() never makes more than maxRetries creation attempts, and
\* every submission eventually completes with a success or a failure.
C9_BoundedAcquisition ==
    /\ [](\A c \in Callers : i[c] <= maxRetries)
    /\ <>(\A c \in Callers : Done(c) /\ result[c] \in {"success", "failure"})

\* A caller has used up its maxRetries attempts against a marker that is
\* not going to be removed.
C9_Witness ==
    \E c \in Callers :
        /\ pc[c] = "acquire" /\ i[c] = maxRetries
        /\ marker # 0 /\ Done(marker)

\* C10: a write that fails under the lock leaves the persisted store as it
\* was before the write, and the submission is answered with a failure.
C10_FailedWriteCommitsNothing ==
    [][\A c \in Callers :
         /\ pc[c] = "write" /\ err'[c] = "io_write" => Store' = Store
         /\ pc[c] = "release" /\ err[c] = "io_write" /\ pc'[c] = "done"
              => result'[c] = "failure"]_vars

\* The marker exists and the caller that created it has finished: no running
\* caller is going to remove it.
Orphaned == \E c \in Callers : marker = c /\ Done(c)

\* C18: from a state with an orphaned marker on, the marker stays, the
\* persisted document does not change and every submission that completes
\* is answered with a failure.
C18_OrphanedMarkerLocksStore ==
    [][Orphaned =>
         /\ Orphaned'
         /\ doc' = doc
         /\ marker' = marker
         /\ \A c \in Callers :
              ~Done(c) /\ Done(c)' => result'[c] = "failure"]_vars

\* A release failed, the marker is orphaned and a later submission has run
\* out of attempts and failed.
C18_Witness ==
    /\ Orphaned
    /\ \E c, d \in Callers :
         /\ marker = c /\ unlinkErr[c]
         /\ d # c /\ Done(d) /\ err[d] = "timeout" /\ result[d] = "failure"

\* C19: the ids of the records of the persisted store are strictly
\* increasing in storage order, hence pairwise distinct.
C19_IdsStrictlyIncreasing ==
    \A j, k \in 1..Len(Store.records) :
        j < k => Store.records[j].id < Store.records[k].id

\* Submissions have overlapped and the store holds NumCallers records.
C19_Witness == overlap /\ Len(Store.records) = NumCallers

\* ---- one server process ---------------------------------------------------
\* In one Node.js process a handler runs without interruption up to its
\* next suspension point; the only one in a submission is the wait of line
\* 40.  The actions below are the handler of lines 191-258 cut at that
\* point, with the request as an input.

\* parseFloat on the distance strings the requests below carry.
parseFloat(str) == CASE str = "5" -> 5 [] str = "15" -> 15 [] OTHER -> 0

\* A value is falsy for the checks of lines 196 and 204.
Falsy(v) == v = ""

\* Lines 196-209 let the request through.
AcceptedWithoutPhoto(r) ==
    ~(Falsy(r.name) \/ Falsy(r.gender) \/ Falsy(r.bike) \/ Falsy(r.treadmill)
        \/ Falsy(r.rowing))

Accepted(r) ==
    /\ ~(Falsy(r.name) \/ Falsy(r.gender) \/ Falsy(r.bike) \/ Falsy(r.treadmill)
           \/ Falsy(r.rowing))
    /\ ~Falsy(r.photo)

\* Lines 215-225 (submittedAt, a timestamp, is left out).
record(r, nid) ==
    [id |-> nid, name |-> r.name, gender |-> r.gender,
     bike |-> parseFloat(r.bike), treadmill |-> parseFloat(r.treadmill),
     rowing |-> parseFloat(r.rowing),
     totalDistance |-> parseFloat(r.bike) + parseFloat(r.treadmill) + parseFloat(r.rowing),
     photoPath |-> r.photo]

\* The requests tried: complete ones, with a gender inside and outside the
\* enumeration, and one request for each field that can be missing.
CompleteRequests ==
    {[name |-> "A", gender |-> g, bike |-> "5", treadmill |-> "5", rowing |-> "5",
      photo |-> "uploads/p.jpg"] :
        g \in {"male", "female", "other"}}

BaseRequest ==
    [name |-> "A", gender |-> "male", bike |-> "5", treadmill |-> "5",
     rowing |-> "5", photo |-> "uploads/p.jpg"]

IncompleteRequests ==
    {[BaseRequest EXCEPT ![f] = ""] :
        f \in {"name", "gender", "bike", "treadmill", "rowing", "photo"}}

Requests == CompleteRequests \cup IncompleteRequests

\* Lines 196-209: the 400 response, before anything is read.
Reject(c) ==
    /\ result' = [result EXCEPT ![c] = "rejected"]
    /\ pc' = [pc EXCEPT ![c] = "done"]
    /\ UNCHANGED <<doc, marker, records, nextId, isLocked, i, err, unlinkErr,
                   seqNo, overlap>>

\* Line 34 succeeded for c: lines 35-36, the write of line 91 (which may
\* fail in its open or in its write), the finally of line 97 and the
\* response, for the snapshot records[c], nextId[c] the handler holds.
Critical(c, recs, nid) ==
    \E w \in {"ok", "open_fails", "write_fails"}, unlinkOk \in BOOLEAN :
        LET r == release(TRUE, c, unlinkOk)
            e == IF w = "ok" THEN "none" ELSE "io_write"
        IN  /\ doc' = CASE w = "ok" -> JsonDoc(recs, NextIdToWrite(nid))
                        [] w = "open_fails" -> doc
                        [] OTHER -> TruncatedDoc
            /\ marker' = r.marker
            /\ isLocked' = [isLocked EXCEPT ![c] = r.isLocked]
            /\ unlinkErr' = [unlinkErr EXCEPT ![c] = ~unlinkOk]
            /\ err' = [err EXCEPT ![c] = e]
            /\ result' = [result EXCEPT ![c] = Response(e)]
            /\ i' = [i EXCEPT ![c] = 0]
            /\ pc' = [pc EXCEPT ![c] = "done"]

\* Line 34 threw EEXIST: the handler is suspended in the wait of line 40.
Suspend(c) ==
    /\ i' = [i EXCEPT ![c] = i[c] + 1]
    /\ pc' = [pc EXCEPT ![c] = "acquire"]
    /\ UNCHANGED <<doc, marker, isLocked, err, result, unlinkErr>>

\* acquire() threw e: release() on the lock that is not held, then the 500.
Throw(c, e) ==
    /\ LET r == release(isLocked[c], marker, TRUE) IN
         /\ marker' = r.marker
         /\ isLocked' = [isLocked EXCEPT ![c] = r.isLocked]
    /\ err' = [err EXCEPT ![c] = e]
    /\ result' = [result EXCEPT ![c] = Response(e)]
    /\ pc' = [pc EXCEPT ![c] = "done"]
    /\ UNCHANGED <<doc, i, unlinkErr>>

\* One attempt of line 34 and what follows it without suspension.
Attempt(c, recs, nid) ==
    \/ CanCreateMarker(marker) /\ Critical(c, recs, nid)
    \/ ~CanCreateMarker(marker) /\ Suspend(c)
    \/ Throw(c, "io_lock")

\* A request arrives: the handler runs until it has answered or is waiting.
SingleSubmit(c) ==
    /\ pc[c] = "start"
    /\ \E r \in Requests :
         /\ req' = [req EXCEPT ![c] = r]
         /\ IF ~Accepted(r)
            THEN Reject(c)
            ELSE LET s == readRecords(doc)
                     recs == Append(s.records, record(r, s.nextId))
                 IN  /\ records' = [records EXCEPT ![c] = recs]
                     /\ nextId' = [nextId EXCEPT ![c] = s.nextId]
                     /\ overlap' = (overlap \/ \E d \in Callers : InFlight(d))
                     /\ seqNo' = IF overlap'
                                 THEN [d \in Callers |-> 0]
                                 ELSE [seqNo EXCEPT ![c] = Cardinality(Started) + 1]
                     /\ Attempt(c, recs, s.nextId)
    /\ UNCHANGED <<reply, arg, written>>

\* The timer of line 40 fires: the next iteration of the loop, or line 46.
SingleResume(c) ==
    /\ pc[c] = "acquire"
    /\ IF Retry(i[c])
       THEN Attempt(c, records[c], nextId[c])
       ELSE Throw(c, "timeout")
    /\ UNCHANGED <<records, nextId, seqNo, overlap>>
    /\ UNCHANGED boundary

NextSingle == \E c \in Callers : SingleSubmit(c) \/ SingleResume(c)

\* The server starts on a data directory without records.json.
InitSingle == Init /\ doc = AbsentDoc

SpecSingle == InitSingle /\ [][NextSingle]_vars

\* The request carries a name, a gender, the three distances and the photo.
Complete(r) ==
    /\ r.name # "" /\ r.gender # ""
    /\ r.bike # "" /\ r.treadmill # "" /\ r.rowing # ""
    /\ r.photo # ""

\* C11: a handler that starts on a request lacking a required field or the
\* photo answers with a rejection in that same step, without reading the
\* store, without an attempt on the marker, and leaves the persisted
\* document and the marker as they were.
C11_IncompleteRequestRejected ==
    [][\A c \in Callers :
         pc[c] = "start" /\ pc'[c] # "start" /\ ~Complete(req'[c]) =>
            /\ pc'[c] = "done" /\ result'[c] = "rejected"
            /\ doc' = doc /\ marker' = marker
            /\ records'[c] = <<>> /\ i'[c] = 0 /\ ~isLocked'[c]]_vars

\* A request without the photo was rejected while the store held a record.
C11_Witness ==
    \E c \in Callers :
        /\ Done(c) /\ result[c] = "rejected"
        /\ req[c].photo = "" /\ req[c].name # ""
        /\ Len(Store.records) > 0

\* C15: every record of the persisted store has gender male or female, so
\* the sizes of the two partitions add up to the number of records.
C15_GenderPartition ==
    /\ \A k \in 1..Len(Store.records) :
         Store.records[k].gender \in {"male", "female"}
    /\ Cardinality({k \in 1..Len(Store.records) : Store.records[k].gender = "male"})
         + Cardinality({k \in 1..Len(Store.records) : Store.records[k].gender = "female"})
         = Len(Store.records)

filterGender(recs, g) == SelectSeq(recs, LAMBDA r : r.gender = g)

\* records.filter(r => r.name === n)
filterName(recs, n) == SelectSeq(recs, LAMBDA r : r.name = n)

\* recs.sort((a, b) => b.totalDistance - a.totalDistance): Array.prototype.sort
\* is stable, records that compare equal keep their order.
RECURSIVE sortAscending(_)
sortAscending(recs) ==
    IF recs = <<>> THEN <<>>
    ELSE LET init == sortAscending(SubSeq(recs, 1, Len(recs) - 1))
             x == recs[Len(recs)]
             k == Cardinality({j \in 1..Len(init) :
                                 init[j].totalDistance <= x.totalDistance})
         IN  SubSeq(init, 1, k) \o <<x>> \o SubSeq(init, k + 1, Len(init))

RECURSIVE sortDescending(_)
sortDescending(recs) ==
    IF recs = <<>> THEN <<>>
    ELSE LET init == sortDescending(SubSeq(recs, 1, Len(recs) - 1))
             x == recs[Len(recs)]
             k == Cardinality({j \in 1..Len(init) :
                                 init[j].totalDistance >= x.totalDistance})
         IN  SubSeq(init, 1, k) \o <<x>> \o SubSeq(init, k + 1, Len(init))

\* sorted.map((record, index) => ({rank: index + 1, ...})): the response
\* shows rank, name, gender and date of each entry and masks the rest.
ranked(sorted) == [k \in 1..Len(sorted) |-> [rank |-> k, record |-> sorted[k]]]

\* sorted.findIndex(r => r.id === id) + 1
findRank(sorted, id) ==
    IF \E k \in 1..Len(sorted) : sorted[k].id = id
    THEN CHOOSE k \in 1..Len(sorted) :
            /\ sorted[k].id = id
            /\ \A j \in 1..(k - 1) : sorted[j].id # id
    ELSE 0

\* userRecords[userRecords.length - 1]
firstOf(recs) == recs[1]

latestOf(recs) == recs[Len(recs)]

RECURSIVE sumTotal(_)
sumTotal(recs) ==
    IF recs = <<>> THEN 0
    ELSE recs[1].totalDistance + sumTotal(Tail(recs))

RECURSIVE maxTotal(_)
maxTotal(recs) ==
    IF recs = <<>> THEN 0
    ELSE LET m == maxTotal(Tail(recs)) IN
         IF Len(recs) = 1 \/ recs[1].totalDistance > m
         THEN recs[1].totalDistance ELSE m

\* Math.round(avg * 100) for integral totals: the average in hundredths.
averageHundredths(recs) ==
    IF recs = <<>> THEN 0
    ELSE (2 * 100 * sumTotal(recs) + Len(recs)) \div (2 * Len(recs))

\* The read-only handlers call readRecords() and never lock.acquire().
waitsForLockIfPresent(m) == m # 0

waitsForLock(m) == FALSE

Answer(r) ==
    /\ ~waitsForLock(marker)
    /\ reply' = r
    /\ UNCHANGED <<doc, marker, pc, records, nextId, isLocked, i, err, result,
                   unlinkErr, seqNo, overlap, req, arg, written>>

\* A bare readRecords() call (line 486).
ReadStore ==
    Answer([NoReply EXCEPT !.op = "read", !.status = 200,
                           !.store = readRecords(doc)])

\* GET /api/rankings
GetRankings ==
    LET recs == readRecords(doc).records
        males == filterGender(recs, "male")
        females == filterGender(recs, "female")
    IN  Answer([NoReply EXCEPT
                  !.op = "rankings", !.status = 200,
                  !.male = ranked(sortDescending(males)),
                  !.female = ranked(sortDescending(females)),
                  !.counts = <<Len(recs), Len(males), Len(females), 0, 0>>])

\* GET /api/my-record/:name
GetMyRecord(n) ==
    LET recs == readRecords(doc).records
        userRecords == filterName(recs, n)
    IN  IF Len(userRecords) = 0
        THEN Answer([NoReply EXCEPT !.op = "my-record", !.status = 404, !.name = n])
        ELSE LET latestRecord == latestOf(userRecords)
                 sameGender == filterGender(recs, latestRecord.gender)
             IN  Answer([NoReply EXCEPT
                   !.op = "my-record", !.status = 200, !.name = n,
                   !.rank = findRank(sortDescending(sameGender), latestRecord.id),
                   !.record = <<latestRecord>>,
                   !.counts = <<Len(recs), Len(sameGender), 0, 0, 0>>])

\* GET /api/statistics
GetStatistics ==
    LET recs == readRecords(doc).records IN
    Answer([NoReply EXCEPT
              !.op = "statistics", !.status = 200,
              !.counts = <<Len(recs), Len(filterGender(recs, "male")),
                           Len(filterGender(recs, "female")),
                           averageHundredths(recs), maxTotal(recs)>>])

\* GET /api/backup
GetBackup ==
    Answer([NoReply EXCEPT !.op = "backup", !.status = 200,
                           !.store = [records |-> readRecords(doc).records,
                                      nextId |-> 0]])

\* The names asked for: with and without records.
QueryNames == {"A", "B", "C"}

NextQuery ==
    \/ ReadStore
    \/ GetRankings
    \/ \E n \in QueryNames : GetMyRecord(n)
    \/ GetStatistics
    \/ GetBackup

\* The requests the stored records come from.
StoredRequests ==
    {[name |-> n, gender |-> g, bike |-> b, treadmill |-> "5", rowing |-> "5",
      photo |-> "uploads/p.jpg"] :
        n \in {"A", "B"}, g \in {"male", "female"}, b \in {"5", "15"}}
      \cup {[BaseRequest EXCEPT !.name = "B", !.gender = "other"]}

\* The record lists submissions build: the k-th record has id k.
RecordLists ==
    UNION {{[k \in 1..n |-> record(f[k], k)] : f \in [1..n -> StoredRequests]} :
              n \in 0..MaxRecords}

\* Documents the handlers write, and documents that are absent, damaged or
\* lack a field.
QueryDocs ==
    {JsonDoc(recs, Len(recs) + 1) : recs \in RecordLists}
      \cup {AbsentDoc, TruncatedDoc, PartialDoc("unreadable", <<>>, 0),
            PartialDoc("json_empty", <<>>, 0),
            PartialDoc("json_no_records", <<>>, 3),
            PartialDoc("json", <<>>, 0)}
      \cup {PartialDoc("json_no_nextId", recs, 0) :
              recs \in {r \in RecordLists : Len(r) <= 1}}

\* The server answers read-only requests on some document; the marker is
\* absent, or a submission (caller 1) is stopped between writeRecords'
\* acquire and its write.
InitQuery ==
    /\ doc \in QueryDocs
    /\ \E held \in BOOLEAN :
         LET s == readRecords(doc) IN
         /\ marker = IF held THEN 1 ELSE 0
         /\ pc = [c \in Callers |-> IF held /\ c = 1 THEN "write" ELSE "start"]
         /\ records = [c \in Callers |->
                         IF held /\ c = 1
                         THEN Append(s.records, record(BaseRequest, s.nextId))
                         ELSE <<>>]
         /\ nextId = [c \in Callers |-> IF held /\ c = 1 THEN s.nextId ELSE 0]
         /\ isLocked = [c \in Callers |-> held /\ c = 1]
         /\ req = [c \in Callers |-> IF held /\ c = 1 THEN BaseRequest ELSE NoRequest]
    /\ i = [c \in Callers |-> 0]
    /\ err = [c \in Callers |-> "none"]
    /\ result = [c \in Callers |-> "none"]
    /\ unlinkErr = [c \in Callers |-> FALSE]
    /\ seqNo = [c \in Callers |-> 0]
    /\ overlap = FALSE
    /\ reply = NoReply
    /\ arg = EmptyStore
    /\ written = FALSE

SpecQuery == InitQuery /\ [][NextQuery]_vars

\* C12: the read-only requests (readRecords itself, rankings, personal
\* lookup, statistics, backup) can always be answered, whether or not the
\* marker is present, and answering one leaves the persisted document and
\* the marker unchanged.  Rankings and the personal lookup answer through
\* Answer, whose guard does not depend on the reply: they can be answered
\* exactly when Answer(NoReply) can.
C12_ReadsNeverWait ==
    /\ [](/\ ENABLED ReadStore
          /\ ENABLED GetStatistics
          /\ ENABLED GetBackup
          /\ ENABLED Answer(NoReply))
    /\ [][reply' # reply => doc' = doc /\ marker' = marker]_vars

\* A read-only request was answered while a submission held the lock.
C12_Witness ==
    /\ marker # 0 /\ \E c \in Callers : InCriticalSection(c)
    /\ reply.op = "statistics" /\ reply.counts[1] > 0

\* C14: readRecords answers without an error; for an absent, unreadable or
\* malformed document it returns no records and nextId = 1; for a parsed
\* document that lacks records or nextId the missing field is the empty list
\* or 1 and the other field is the document's.  The document is not changed.
C14_ReadFallback ==
    /\ [](reply.op = "read" =>
            /\ reply.status = 200
            /\ doc.kind \in {"absent", "unreadable", "malformed"} =>
                 reply.store.records = <<>> /\ reply.store.nextId = 1
            /\ doc.kind = "json_empty" =>
                 reply.store.records = <<>> /\ reply.store.nextId = 1
            /\ doc.kind = "json_no_records" =>
                 reply.store.records = <<>> /\ reply.store.nextId = doc.nextId
            /\ doc.kind = "json_no_nextId" =>
                 reply.store.records = doc.records /\ reply.store.nextId = 1)
    /\ [][reply'.op = "read" => doc' = doc]_vars

\* A document with records but without nextId has been read.
C14_Witness ==
    /\ reply.op = "read"
    /\ doc.kind = "json_no_nextId" /\ Len(doc.records) > 0

\* Position in storage of a stored record (ids are distinct in a document).
Position(rec) == CHOOSE p \in 1..Len(Store.records) : Store.records[p] = rec

\* rec comes before other in the ranking of its gender: a larger total, or
\* the same total and an earlier place in storage.
RanksBefore(rec, other) ==
    \/ rec.totalDistance > other.totalDistance
    \/ /\ rec.totalDistance = other.totalDistance
       /\ Position(rec) < Position(other)

\* The stored records of gender g.
Partition(g) ==
    {Store.records[p] : p \in {q \in 1..Len(Store.records) :
                                   Store.records[q].gender = g}}

\* list is the ranking of the stored records of gender g.
IsRanking(list, g) ==
    /\ Len(list) = Cardinality(Partition(g))
    /\ {list[k].record : k \in 1..Len(list)} = Partition(g)
    /\ \A k \in 1..Len(list) : list[k].rank = k
    /\ \A j, k \in 1..Len(list) :
         j < k => RanksBefore(list[j].record, list[k].record)

\* C16: the male and the female list of a rankings response hold exactly the
\* stored records of that gender, by descending totalDistance with ties in
\* storage order, and the entry at position k has rank k.
C16_Ranking ==
    reply.op = "rankings" =>
        /\ IsRanking(reply.male, "male")
        /\ IsRanking(reply.female, "female")

\* A ranking of three male records, two of them with the same total.
C16_Witness ==
    /\ reply.op = "rankings" /\ Len(reply.male) = 3
    /\ reply.male[1].record.totalDistance > reply.male[2].record.totalDistance
    /\ reply.male[2].record.totalDistance = reply.male[3].record.totalDistance
    /\ reply.male[1].record.id > reply.male[2].record.id

\* C17: the personal lookup answers not-found exactly when no stored record
\* has the name; otherwise it returns the last stored record with the name
\* and its rank: one more than the number of records of its gender that
\* come before it in the ranking, between 1 and the size of the partition.
C17_PersonalLookup ==
    reply.op = "my-record" =>
        LET named == {p \in 1..Len(Store.records) :
                         Store.records[p].name = reply.name}
        IN  /\ reply.status = 404 <=> named = {}
            /\ reply.status \in {200, 404}
            /\ reply.status = 200 =>
                 LET rec == reply.record[1] IN
                 /\ rec = Store.records[CHOOSE p \in named : \A q \in named : q <= p]
                 /\ reply.rank =
                      1 + Cardinality({o \in Partition(rec.gender) :
                                          RanksBefore(o, rec)})
                 /\ reply.rank \in 1..Cardinality(Partition(rec.gender))

\* The name has two records and the later one is not first in its partition.
C17_Witness ==
    /\ reply.op = "my-record" /\ reply.status = 200 /\ reply.rank > 1
    /\ Cardinality({p \in 1..Len(Store.records) :
                      Store.records[p].name = reply.name}) > 1

\* ---- writeRecords called directly: the round trip -------------------------
\* A JavaScript number is written here as its decimal text, "NaN" for NaN.
\* JSON.stringify writes a finite number as a text that JSON.parse reads back
\* as the same number, and writes NaN (and the infinities) as null.
afterJsonBroken(v) == "null"

afterJson(v) == IF v = "NaN" THEN "null" ELSE v

\* JSON.parse(JSON.stringify(records)): strings and ids come back as they
\* were, each number field goes through afterJson.
stringify(recs) ==
    [k \in 1..Len(recs) |->
        [recs[k] EXCEPT !.totalDistance = afterJson(@)]]

\* The records a direct call may hand over: ids in any order, totals finite
\* or NaN (parseFloat of a non-numeric text, line 219).
RoundTripRecords ==
    {[id |-> d, name |-> "A", totalDistance |-> t] :
        d \in 1..2, t \in {"10", "NaN"}}

RoundTripStores ==
    {[records |-> recs, nextId |-> nid] :
        recs \in UNION {[1..n -> RoundTripRecords] : n \in 0..MaxRecords},
        nid \in 0..3}

\* writeRecords(arg.records, arg.nextId) with the marker absent and no
\* failure: acquire creates the marker, writeFileSync replaces the document,
\* release removes the marker.
WriteStore ==
    /\ ~written
    /\ CanCreateMarker(marker)
    /\ doc' = JsonDoc(stringify(arg.records), arg.nextId)
    /\ marker' = release(TRUE, 1, TRUE).marker
    /\ written' = TRUE
    /\ result' = [result EXCEPT ![1] = "success"]
    /\ UNCHANGED <<pc, records, nextId, isLocked, i, err, unlinkErr, seqNo,
                   overlap, req, reply, arg>>

\* The same call when writeFileSync throws (lines 93-95): the document is
\* as before or truncated, the error is rethrown, the marker is removed.
WriteStoreFails ==
    /\ ~written
    /\ result[1] = "none"
    /\ CanCreateMarker(marker)
    /\ doc' \in {doc, TruncatedDoc}
    /\ marker' = release(TRUE, 1, TRUE).marker
    /\ result' = [result EXCEPT ![1] = "failure"]
    /\ UNCHANGED <<pc, records, nextId, isLocked, i, err, unlinkErr, seqNo,
                   overlap, req, reply, arg, written>>

NextRoundTrip ==
    \/ WriteStore
    \/ WriteStoreFails
    \/ ReadStore

\* The document is absent or holds an earlier store; the caller has a store
\* to write.
InitRoundTrip ==
    /\ doc \in {AbsentDoc, JsonDoc(<<[id |-> 1, name |-> "B", totalDistance |-> "30"]>>, 2)}
    /\ marker = 0
    /\ arg \in RoundTripStores
    /\ written = FALSE
    /\ reply = NoReply
    /\ pc = [c \in Callers |-> "start"]
    /\ records = [c \in Callers |-> <<>>]
    /\ nextId = [c \in Callers |-> 0]
    /\ isLocked = [c \in Callers |-> FALSE]
    /\ i = [c \in Callers |-> 0]
    /\ err = [c \in Callers |-> "none"]
    /\ result = [c \in Callers |-> "none"]
    /\ unlinkErr = [c \in Callers |-> FALSE]
    /\ seqNo = [c \in Callers |-> 0]
    /\ overlap = FALSE
    /\ req = [c \in Callers |-> NoRequest]

SpecRoundTrip == InitRoundTrip /\ [][NextRoundTrip]_vars

\* A store of the data model with a usable counter: nextId is at least 1 and
\* above every id, and every total is a number.
ValidStore(s) ==
    /\ s.nextId >= 1
    /\ \A k \in 1..Len(s.records) :
         /\ s.records[k].id < s.nextId
         /\ s.records[k].totalDistance # "NaN"

====
